---- MODULE Spec2Model ----
(***************************************************************************)
(* Capsule API (FastAPI + SQLAlchemy): users, capsules and messages with   *)
(* bearer-token authentication.  Every HTTP handler of src/main.py is one  *)
(* action; a handler runs inside one request and is atomic here.  The      *)
(* variable last holds the request being answered and its response; the    *)
(* server takes the next request once the response has been returned.      *)
(*                                                                         *)
(* Columns that no handler ever reads back in a condition (firstname,      *)
(* lastname, Capsule.name, notify_on_create, created_at) are left out of   *)
(* the records; DEV_MODE is True (src/main.py:17), so create_capsule only  *)
(* prints its notification.                                                *)
(***************************************************************************)
EXTENDS Integers, Sequences, FiniteSets, TLC

VARIABLES users, nextUserId, capsules, nextCapsuleId, messages, nextMessageId,
          files, nextFile, tokens, now, last

vars == <<users, nextUserId, capsules, nextCapsuleId, messages, nextMessageId,
          files, nextFile, tokens, now, last>>

db == <<users, nextUserId, capsules, nextCapsuleId, messages, nextMessageId>>

(* ------------------------------ bounds -------------------------------- *)
MaxUsers == 2
MaxCapsules == 1
MaxMessages == 2
MaxUploads == 2
MaxTokens == 2
MaxTime == 2

(* ACCESS_TOKEN_EXPIRE_MINUTES comes from the environment; one clock tick  *)
(* of the model is one such unit.                                          *)
ACCESS_TOKEN_EXPIRE_MINUTES == 2

None == "None"
Phones == {"p1", "p2"}
Emails == {"e1"}
Passwords == {"pw1"}
Texts == {"t1"}
RevealDates == 0..(MaxTime - 1)

(* bool | None of UserUpdate.is_admin: <<>> is None, <<b>> is the value b. *)
OptionalBool == {<<>>, <<TRUE>>, <<FALSE>>}

(* ------------------------------ auth.py ------------------------------- *)
hash_password(password) == <<"bcrypt", password>>

verify_password(password, hashed) == hashed = <<"bcrypt", password>>

(* str(user.id) when the token is issued, int(payload.get("sub")) when it  *)
(* is read back.                                                           *)
str(n) == <<"str", n>>

int(s) == s[2]

create_access_token(sub) ==
  [sub |-> sub, exp |-> now + ACCESS_TOKEN_EXPIRE_MINUTES, signed |-> TRUE]

(* A credential that was not signed with SECRET_KEY.                       *)
ForgedToken == [sub |-> str(1), exp |-> MaxTime + ACCESS_TOKEN_EXPIRE_MINUTES, signed |-> FALSE]

NoToken == [sub |-> str(0), exp |-> 0, signed |-> FALSE]

(* jwt.decode: the signature is verified first, then the exp claim         *)
(* (expired when exp <= now).                                              *)
jwt_decode(token) ==
  IF ~token.signed THEN [err |-> "InvalidSignatureError", sub |-> str(0)]
  ELSE IF token.exp <= now THEN [err |-> "ExpiredSignatureError", sub |-> str(0)]
  ELSE [err |-> "ok", sub |-> token.sub]

NoUser == [id |-> 0, is_admin |-> FALSE, phone |-> None]

(* The except clauses of get_current_user: every exception raised inside   *)
(* the try block, the HTTPException(404) of line 48 included, is answered  *)
(* by 401.                                                                 *)
except_Exception(raised) == 401

get_current_user(token) ==
  LET payload == jwt_decode(token) IN
  IF payload.err = "ExpiredSignatureError" THEN [code |-> 401, user |-> NoUser]
  ELSE IF payload.err # "ok" THEN [code |-> except_Exception(payload.err), user |-> NoUser]
  ELSE LET user_id == int(payload.sub) IN
       IF user_id \notin DOMAIN users
       THEN [code |-> except_Exception("HTTPException(404)"), user |-> NoUser]
       ELSE [code |-> 200,
             user |-> [id |-> user_id,
                       is_admin |-> users[user_id].is_admin,
                       phone |-> users[user_id].phone]]

(* The credentials a client can send: the variable tokens holds the        *)
(* bearer tokens in the clients' hands, issued by login or forged.         *)
Credentials == tokens

(* ----------------------------- responses ------------------------------ *)
NoBody == [phone |-> None, email |-> None, is_admin |-> None, text |-> None,
           file |-> None, reveal_date |-> None]

Response(op, code, token, user, user_id, capsule_id, message_id, body, out) ==
  [op |-> op, code |-> code, token |-> token, user |-> user, user_id |-> user_id,
   capsule_id |-> capsule_id, message_id |-> message_id, body |-> body, out |-> out]

NoRequest == Response("none", 0, NoToken, NoUser, 0, 0, 0, NoBody, <<>>)

(* ------------------------------ helpers ------------------------------- *)
Remove(f, k) == [x \in (DOMAIN f) \ {k} |-> f[x]]

Put(f, k, v) == [x \in (DOMAIN f) \cup {k} |-> IF x = k THEN v ELSE f[x]]

PhoneTaken(phone, except) ==
  \E u \in (DOMAIN users) \ {except} : users[u].phone = phone

EmailTaken(email, except) ==
  email # None /\ \E u \in (DOMAIN users) \ {except} : users[u].email = email

Idle == last = NoRequest

(* The response has been returned to the client.                           *)
Return ==
  /\ ~Idle
  /\ last' = NoRequest
  /\ UNCHANGED <<db, files, nextFile, tokens, now>>

(* The wall clock (datetime.utcnow) advances.                              *)
Tick ==
  /\ Idle
  /\ now < MaxTime
  /\ now' = now + 1
  /\ UNCHANGED <<db, files, nextFile, tokens, last>>

(* ------------------------------- users -------------------------------- *)
create_user ==
  \E phone \in Phones, email \in Emails \cup {None}, is_admin \in BOOLEAN,
     password \in Passwords :
    LET body == [NoBody EXCEPT !.phone = phone, !.email = email, !.is_admin = is_admin]
        code == IF PhoneTaken(phone, 0) THEN 400
                ELSE IF EmailTaken(email, 0) THEN 500
                ELSE 200
    IN
    /\ Idle
    /\ nextUserId <= MaxUsers
    /\ IF code = 200
       THEN /\ users' = Put(users, nextUserId,
                            [phone |-> phone, email |-> email,
                             hashed_password |-> hash_password(password),
                             is_admin |-> is_admin])
            /\ nextUserId' = nextUserId + 1
       ELSE UNCHANGED <<users, nextUserId>>
    /\ last' = Response("create_user", code, NoToken, NoUser,
                        IF code = 200 THEN nextUserId ELSE 0, 0, 0, body, <<>>)
    /\ UNCHANGED <<capsules, nextCapsuleId, messages, nextMessageId, files,
                   nextFile, tokens, now>>

user_access_allowed(current_user, user_id) ==
  ~(~current_user.is_admin /\ current_user.id # user_id)

get_user ==
  \E token \in Credentials, user_id \in 1..MaxUsers :
    LET auth == get_current_user(token)
        current_user == auth.user
        code == IF auth.code # 200 THEN auth.code
                ELSE IF ~user_access_allowed(current_user, user_id) THEN 403
                ELSE IF user_id \notin DOMAIN users THEN 404
                ELSE 200
    IN
    /\ Idle
    /\ last' = Response("get_user", code, token, current_user, user_id, 0, 0, NoBody, <<>>)
    /\ UNCHANGED <<db, files, nextFile, tokens, now>>

update_user ==
  \E token \in Credentials, user_id \in 1..MaxUsers,
     phone \in Phones \cup {None}, email \in Emails \cup {None},
     is_admin \in OptionalBool :
    LET auth == get_current_user(token)
        current_user == auth.user
        body == [NoBody EXCEPT !.phone = phone, !.email = email, !.is_admin = is_admin]
        user == users[user_id]
        updated == [user EXCEPT
                      !.phone = IF phone # None THEN phone ELSE @,
                      !.email = IF email # None THEN email ELSE @,
                      !.is_admin = IF is_admin # <<>> /\ current_user.is_admin
                                   THEN is_admin[1] ELSE @]
        code == IF auth.code # 200 THEN auth.code
                ELSE IF ~user_access_allowed(current_user, user_id) THEN 403
                ELSE IF user_id \notin DOMAIN users THEN 404
                ELSE IF PhoneTaken(updated.phone, user_id)
                        \/ EmailTaken(updated.email, user_id) THEN 500
                ELSE 200
    IN
    /\ Idle
    /\ users' = IF code = 200 THEN [users EXCEPT ![user_id] = updated] ELSE users
    /\ last' = Response("update_user", code, token, current_user, user_id, 0, 0, body, <<>>)
    /\ UNCHANGED <<nextUserId, capsules, nextCapsuleId, messages, nextMessageId,
                   files, nextFile, tokens, now>>

(* db.delete(user) sets owner_id / creator_id of the user's capsules and   *)
(* messages to NULL (no delete cascade on User's relationships); both      *)
(* columns are nullable=False, so the commit raises IntegrityError.        *)
HasDependents(user_id) ==
  \/ \E c \in DOMAIN capsules : capsules[c].owner_id = user_id
  \/ \E m \in DOMAIN messages : messages[m].creator_id = user_id

delete_user_allowed(current_user) == current_user.is_admin

delete_user ==
  \E token \in Credentials, user_id \in 1..MaxUsers :
    LET auth == get_current_user(token)
        current_user == auth.user
        code == IF auth.code # 200 THEN auth.code
                ELSE IF user_id \notin DOMAIN users THEN 404
                ELSE IF ~delete_user_allowed(current_user) THEN 403
                ELSE IF HasDependents(user_id) THEN 500
                ELSE 200
    IN
    /\ Idle
    /\ users' = IF code = 200 THEN Remove(users, user_id) ELSE users
    /\ last' = Response("delete_user", code, token, current_user, user_id, 0, 0, NoBody, <<>>)
    /\ UNCHANGED <<nextUserId, capsules, nextCapsuleId, messages, nextMessageId,
                   files, nextFile, tokens, now>>

(* -------------------------------- auth -------------------------------- *)
login ==
  \E phone \in Phones, password \in Passwords \cup {"wrong"} :
    LET found == {u \in DOMAIN users : users[u].phone = phone}
        user_id == CHOOSE u \in found : TRUE
        ok == found # {} /\ verify_password(password, users[user_id].hashed_password)
        token == create_access_token(str(user_id))
    IN
    /\ Idle
    /\ ok => (token \in tokens \/ Cardinality(tokens \ {ForgedToken}) < MaxTokens)
    /\ tokens' = IF ok THEN tokens \cup {token} ELSE tokens
    /\ last' = Response("login", IF ok THEN 200 ELSE 401,
                        IF ok THEN token ELSE NoToken, NoUser, 0, 0, 0,
                        [NoBody EXCEPT !.phone = phone], <<>>)
    /\ UNCHANGED <<db, files, nextFile, now>>

read_current_user ==
  \E token \in Credentials :
    LET auth == get_current_user(token) IN
    /\ Idle
    /\ last' = Response("read_current_user", auth.code, token, auth.user,
                        auth.user.id, 0, 0, NoBody, <<>>)
    /\ UNCHANGED <<db, files, nextFile, tokens, now>>

(* ------------------------------ utils.py ------------------------------ *)
(* os.path.exists(filename) and os.remove(filename).                       *)
delete_file(disk, filename) == disk \ {filename}

(* upload_file names the file with a fresh uuid, opens it for writing and  *)
(* copies the upload into it.  open() can fail before the file exists;     *)
(* the copy can fail after open() has created it.                          *)
UploadOutcomes == {"written", "open_failed", "copy_failed"}

upload_file(disk, outcome) ==
  [ok |-> outcome = "written",
   filepath |-> nextFile,
   disk |-> IF outcome = "open_failed" THEN disk ELSE disk \cup {nextFile}]

(* ------------------------------ capsules ------------------------------ *)
create_capsule ==
  \E token \in Credentials, reveal_date \in RevealDates, recipient_phone \in Phones :
    LET auth == get_current_user(token)
        current_user == auth.user
        body == [NoBody EXCEPT !.reveal_date = reveal_date, !.phone = recipient_phone]
    IN
    /\ Idle
    /\ nextCapsuleId <= MaxCapsules
    /\ IF auth.code = 200
       THEN /\ capsules' = Put(capsules, nextCapsuleId,
                               [reveal_date |-> reveal_date,
                                owner_id |-> current_user.id,
                                recipient_phone |-> recipient_phone])
            /\ nextCapsuleId' = nextCapsuleId + 1
       ELSE UNCHANGED <<capsules, nextCapsuleId>>
    /\ last' = Response("create_capsule", auth.code, token, current_user, 0,
                        IF auth.code = 200 THEN nextCapsuleId ELSE 0, 0, body, <<>>)
    /\ UNCHANGED <<users, nextUserId, messages, nextMessageId, files, nextFile,
                   tokens, now>>

(* Capsule.messages: the capsule's message rows, in id order.              *)
RECURSIVE MessagesUpTo(_, _)
MessagesUpTo(n, capsule_id) ==
  IF n = 0 THEN <<>>
  ELSE MessagesUpTo(n - 1, capsule_id)
       \o (IF n \in DOMAIN messages /\ messages[n].capsule_id = capsule_id
           THEN <<n>> ELSE <<>>)

capsule_messages(capsule_id) == MessagesUpTo(nextMessageId - 1, capsule_id)

MessageOutOf(message_id, msg) ==
  [id |-> message_id, user_id |-> msg.creator_id, text |-> msg.text,
   filename |-> msg.filename]

MessageOut(message_id) == MessageOutOf(message_id, messages[message_id])

can_read_capsule(current_user, capsule) ==
  \/ current_user.is_admin
  \/ capsule.owner_id = current_user.id
  \/ capsule.recipient_phone = current_user.phone

(* The listing filter with the reveal date excluded (< for <=).            *)
listing_includes_strict(current_user, capsule, m) ==
  \/ current_user.is_admin
  \/ m.creator_id = current_user.id
  \/ (capsule.owner_id = current_user.id /\ capsule.reveal_date < now)
  \/ (capsule.recipient_phone = current_user.phone /\ capsule.reveal_date < now)

listing_includes(current_user, capsule, m) ==
  \/ current_user.is_admin
  \/ m.creator_id = current_user.id
  \/ (capsule.owner_id = current_user.id /\ capsule.reveal_date <= now)
  \/ (capsule.recipient_phone = current_user.phone /\ capsule.reveal_date <= now)

RECURSIVE messages_out(_, _, _)
messages_out(ids, current_user, capsule) ==
  IF ids = <<>> THEN <<>>
  ELSE (IF listing_includes(current_user, capsule, messages[Head(ids)])
        THEN <<MessageOut(Head(ids))>> ELSE <<>>)
       \o messages_out(Tail(ids), current_user, capsule)

get_capsule ==
  \E token \in Credentials, capsule_id \in 1..MaxCapsules :
    LET auth == get_current_user(token)
        current_user == auth.user
        capsule == capsules[capsule_id]
        code == IF auth.code # 200 THEN auth.code
                ELSE IF capsule_id \notin DOMAIN capsules THEN 404
                ELSE IF ~can_read_capsule(current_user, capsule) THEN 403
                ELSE 200
    IN
    /\ Idle
    /\ last' = Response("get_capsule", code, token, current_user, 0, capsule_id, 0,
                        NoBody,
                        IF code = 200
                        THEN messages_out(capsule_messages(capsule_id), current_user, capsule)
                        ELSE <<>>)
    /\ UNCHANGED <<db, files, nextFile, tokens, now>>

(* The capsule write check without the admin's access.                     *)
update_capsule_allowed_owner_only(current_user, capsule) ==
  capsule.owner_id = current_user.id

update_capsule_allowed(current_user, capsule) ==
  current_user.is_admin \/ capsule.owner_id = current_user.id

(* The four "is not None" tests of update_capsule read the stored capsule, *)
(* whose columns are never NULL, so every field of the body is written.    *)
update_capsule ==
  \E token \in Credentials, capsule_id \in 1..MaxCapsules,
     reveal_date \in RevealDates, recipient_phone \in Phones :
    LET auth == get_current_user(token)
        current_user == auth.user
        capsule == capsules[capsule_id]
        body == [NoBody EXCEPT !.reveal_date = reveal_date, !.phone = recipient_phone]
        code == IF auth.code # 200 THEN auth.code
                ELSE IF capsule_id \notin DOMAIN capsules THEN 404
                ELSE IF ~update_capsule_allowed(current_user, capsule) THEN 403
                ELSE 200
    IN
    /\ Idle
    /\ capsules' = IF code = 200
                   THEN [capsules EXCEPT ![capsule_id].reveal_date = reveal_date,
                                         ![capsule_id].recipient_phone = recipient_phone]
                   ELSE capsules
    /\ last' = Response("update_capsule", code, token, current_user, 0, capsule_id, 0,
                        body, <<>>)
    /\ UNCHANGED <<users, nextUserId, nextCapsuleId, messages, nextMessageId,
                   files, nextFile, tokens, now>>

delete_capsule_allowed(current_user, capsule) ==
  current_user.is_admin \/ capsule.owner_id = current_user.id

(* The loop of delete_capsule: os.path.exists(msg.filename) raises         *)
(* TypeError when filename is None (a message with text only); the files   *)
(* removed before that stay removed.                                       *)
RECURSIVE remove_files(_, _)
remove_files(ids, disk) ==
  IF ids = <<>> THEN [ok |-> TRUE, disk |-> disk]
  ELSE IF messages[Head(ids)].filename = 0 THEN [ok |-> FALSE, disk |-> disk]
  ELSE remove_files(Tail(ids), disk \ {messages[Head(ids)].filename})

delete_capsule ==
  \E token \in Credentials, capsule_id \in 1..MaxCapsules :
    LET auth == get_current_user(token)
        current_user == auth.user
        capsule == capsules[capsule_id]
        removed == remove_files(capsule_messages(capsule_id), files)
        code == IF auth.code # 200 THEN auth.code
                ELSE IF capsule_id \notin DOMAIN capsules THEN 404
                ELSE IF ~delete_capsule_allowed(current_user, capsule) THEN 403
                ELSE IF ~removed.ok THEN 500
                ELSE 200
    IN
    /\ Idle
    /\ files' = IF code \in {200, 500} THEN removed.disk ELSE files
    /\ capsules' = IF code = 200 THEN Remove(capsules, capsule_id) ELSE capsules
    /\ messages' = IF code = 200
                   THEN [m \in {x \in DOMAIN messages : messages[x].capsule_id # capsule_id}
                           |-> messages[m]]
                   ELSE messages
    /\ last' = Response("delete_capsule", code, token, current_user, 0, capsule_id, 0,
                        NoBody, <<>>)
    /\ UNCHANGED <<users, nextUserId, nextCapsuleId, nextMessageId, nextFile,
                   tokens, now>>

(* ------------------------------ messages ------------------------------ *)
(* In a Message row, filename 0 is NULL; a stored file is named by the     *)
(* number upload_file drew for it.                                         *)
Uploads == {None, "upload"}

find_message(capsule_id, message_id) ==
  message_id \in DOMAIN messages /\ messages[message_id].capsule_id = capsule_id

create_message ==
  \E token \in Credentials, capsule_id \in 1..MaxCapsules,
     text \in Texts \cup {None}, file \in Uploads, outcome \in UploadOutcomes :
    LET auth == get_current_user(token)
        current_user == auth.user
        body == [NoBody EXCEPT !.text = text, !.file = file]
        up == upload_file(files, outcome)
        code == IF auth.code # 200 THEN auth.code
                ELSE IF text = None /\ file = None THEN 422
                ELSE IF capsule_id \notin DOMAIN capsules THEN 404
                ELSE IF file # None /\ ~up.ok THEN 500
                ELSE 200
    IN
    /\ Idle
    /\ nextMessageId <= MaxMessages
    /\ file # None => nextFile <= MaxUploads
    /\ file = None => outcome = "written"
    /\ IF code \in {200, 500} /\ file # None
       THEN /\ files' = up.disk
            /\ nextFile' = IF up.disk = files THEN nextFile ELSE nextFile + 1
       ELSE UNCHANGED <<files, nextFile>>
    /\ IF code = 200
       THEN /\ messages' = Put(messages, nextMessageId,
                               [capsule_id |-> capsule_id,
                                creator_id |-> current_user.id,
                                text |-> text,
                                filename |-> IF file # None THEN up.filepath ELSE 0])
            /\ nextMessageId' = nextMessageId + 1
       ELSE UNCHANGED <<messages, nextMessageId>>
    /\ last' = Response("create_message", code, token, current_user, 0, capsule_id,
                        IF code = 200 THEN nextMessageId ELSE 0, body,
                        IF code = 200
                        THEN <<MessageOutOf(nextMessageId, messages'[nextMessageId])>>
                        ELSE <<>>)
    /\ UNCHANGED <<users, nextUserId, capsules, nextCapsuleId, tokens, now>>

(* The read check without the recipient-phone test.                        *)
get_message_allowed_after_reveal(current_user, capsule, msg) ==
  \/ current_user.is_admin
  \/ msg.creator_id = current_user.id
  \/ (capsule.owner_id = current_user.id /\ capsule.reveal_date <= now)
  \/ capsule.reveal_date <= now

(* The read check with the reveal date excluded (< for <=).                *)
get_message_allowed_strict(current_user, capsule, msg) ==
  \/ current_user.is_admin
  \/ msg.creator_id = current_user.id
  \/ (capsule.owner_id = current_user.id /\ capsule.reveal_date < now)
  \/ (capsule.recipient_phone = current_user.phone /\ capsule.reveal_date < now)

(* The read check without the creator's own access.                        *)
get_message_allowed_no_creator(current_user, capsule, msg) ==
  \/ current_user.is_admin
  \/ (capsule.owner_id = current_user.id /\ capsule.reveal_date <= now)
  \/ (capsule.recipient_phone = current_user.phone /\ capsule.reveal_date <= now)

get_message_allowed(current_user, capsule, msg) ==
  \/ current_user.is_admin
  \/ msg.creator_id = current_user.id
  \/ (capsule.owner_id = current_user.id /\ capsule.reveal_date <= now)
  \/ (capsule.recipient_phone = current_user.phone /\ capsule.reveal_date <= now)

get_message ==
  \E token \in Credentials, capsule_id \in 1..MaxCapsules, message_id \in 1..MaxMessages :
    LET auth == get_current_user(token)
        current_user == auth.user
        code == IF auth.code # 200 THEN auth.code
                ELSE IF ~find_message(capsule_id, message_id) THEN 404
                ELSE IF ~get_message_allowed(current_user, capsules[capsule_id],
                                             messages[message_id]) THEN 403
                ELSE 200
    IN
    /\ Idle
    /\ last' = Response("get_message", code, token, current_user, 0, capsule_id,
                        message_id, NoBody,
                        IF code = 200 THEN <<MessageOut(message_id)>> ELSE <<>>)
    /\ UNCHANGED <<db, files, nextFile, tokens, now>>

(* The update check extended to the capsule's owner, as in delete_message. *)
update_message_allowed_owner(current_user, msg) ==
  \/ current_user.is_admin
  \/ msg.creator_id = current_user.id
  \/ capsules[msg.capsule_id].owner_id = current_user.id

update_message_allowed(current_user, msg) ==
  ~(msg.creator_id # current_user.id /\ ~current_user.is_admin)

update_message ==
  \E token \in Credentials, capsule_id \in 1..MaxCapsules, message_id \in 1..MaxMessages,
     text \in Texts \cup {None}, file \in Uploads, outcome \in UploadOutcomes :
    LET auth == get_current_user(token)
        current_user == auth.user
        body == [NoBody EXCEPT !.text = text, !.file = file]
        msg == messages[message_id]
        allowed == /\ auth.code = 200
                   /\ ~(text = None /\ file = None)
                   /\ find_message(capsule_id, message_id)
                   /\ update_message_allowed(current_user, msg)
        disk1 == IF msg.filename # 0 THEN delete_file(files, msg.filename) ELSE files
        up == upload_file(disk1, outcome)
        code == IF auth.code # 200 THEN auth.code
                ELSE IF text = None /\ file = None THEN 422
                ELSE IF ~find_message(capsule_id, message_id) THEN 404
                ELSE IF ~update_message_allowed(current_user, msg) THEN 403
                ELSE IF file # None /\ ~up.ok THEN 500
                ELSE 200
    IN
    /\ Idle
    /\ file # None => nextFile <= MaxUploads
    /\ file = None => outcome = "written"
    /\ IF allowed /\ file # None
       THEN /\ files' = up.disk
            /\ nextFile' = IF nextFile \in up.disk THEN nextFile + 1 ELSE nextFile
       ELSE UNCHANGED <<files, nextFile>>
    /\ messages' = IF code = 200
                   THEN [messages EXCEPT
                           ![message_id].text = IF text # None THEN text ELSE @,
                           ![message_id].filename = IF file # None THEN up.filepath ELSE @]
                   ELSE messages
    /\ last' = Response("update_message", code, token, current_user, 0, capsule_id,
                        message_id, body,
                        IF code = 200
                        THEN <<MessageOutOf(message_id, messages'[message_id])>>
                        ELSE <<>>)
    /\ UNCHANGED <<users, nextUserId, capsules, nextCapsuleId, nextMessageId,
                   tokens, now>>

delete_message_allowed(current_user, capsule, msg) ==
  \/ current_user.is_admin
  \/ msg.creator_id = current_user.id
  \/ capsule.owner_id = current_user.id

delete_message ==
  \E token \in Credentials, capsule_id \in 1..MaxCapsules, message_id \in 1..MaxMessages :
    LET auth == get_current_user(token)
        current_user == auth.user
        msg == messages[message_id]
        code == IF auth.code # 200 THEN auth.code
                ELSE IF ~find_message(capsule_id, message_id) THEN 404
                ELSE IF ~delete_message_allowed(current_user, capsules[capsule_id], msg)
                     THEN 403
                ELSE 200
    IN
    /\ Idle
    /\ files' = IF code = 200 /\ msg.filename # 0
                THEN delete_file(files, msg.filename) ELSE files
    /\ messages' = IF code = 200 THEN Remove(messages, message_id) ELSE messages
    /\ last' = Response("delete_message", code, token, current_user, 0, capsule_id,
                        message_id, NoBody, <<>>)
    /\ UNCHANGED <<users, nextUserId, capsules, nextCapsuleId, nextMessageId,
                   nextFile, tokens, now>>

(* ------------------------- specifications ----------------------------- *)
(* The user and session handlers, from an empty database; one client      *)
(* holds a forged token.                                                   *)
InitUsers ==
  /\ users = <<>>
  /\ nextUserId = 1
  /\ capsules = <<>>
  /\ nextCapsuleId = 1
  /\ messages = <<>>
  /\ nextMessageId = 1
  /\ files = {}
  /\ nextFile = 1
  /\ tokens = {ForgedToken}
  /\ now = 0
  /\ last = NoRequest

NextUsers ==
  \/ Tick
  \/ Return
  \/ create_user
  \/ get_user
  \/ update_user
  \/ delete_user
  \/ login
  \/ read_current_user

SpecUsers == InitUsers /\ [][NextUsers]_vars

(* The capsule and message handlers, with two registered users who have    *)
(* logged in at time 0: user 1 (phone p1) and user 2 (phone p2, admin or   *)
(* not).  SpecUsers reaches this population by two create_user and two     *)
(* login requests.                                                         *)
RegisteredUser(phone, is_admin) ==
  [phone |-> phone, email |-> None, hashed_password |-> hash_password("pw1"),
   is_admin |-> is_admin]

InitRegistered ==
  /\ \E is_admin \in BOOLEAN :
       users = (1 :> RegisteredUser("p1", FALSE)) @@ (2 :> RegisteredUser("p2", is_admin))
  /\ nextUserId = 3
  /\ now = 0
  /\ tokens = {create_access_token(str(1)), create_access_token(str(2))}
  /\ last = NoRequest

Init ==
  /\ InitRegistered
  /\ capsules = <<>>
  /\ nextCapsuleId = 1
  /\ messages = <<>>
  /\ nextMessageId = 1
  /\ files = {}
  /\ nextFile = 1

Next ==
  \/ Tick
  \/ Return
  \/ create_capsule
  \/ get_capsule
  \/ update_capsule
  \/ delete_capsule
  \/ create_message
  \/ get_message
  \/ update_message
  \/ delete_message

Spec == Init /\ [][Next]_vars

(* Every handler over a populated database: user 1 (p1) owns capsule 1,    *)
(* which holds a message with text and a file and a message with text      *)
(* only; user 2 (p2) is an admin and the one who is logged in.  Nothing    *)
(* new is created and the clock stands still (update_capsule moves the     *)
(* reveal date instead).  Spec reaches this content by create_capsule and  *)
(* two create_message requests of user 1.                                  *)
InitAdmin ==
  /\ users = (1 :> RegisteredUser("p1", FALSE)) @@ (2 :> RegisteredUser("p2", TRUE))
  /\ nextUserId = 3
  /\ now = 0
  /\ tokens = {create_access_token(str(2))}
  /\ last = NoRequest
  /\ capsules = (1 :> [reveal_date |-> 0, owner_id |-> 1, recipient_phone |-> "p1"])
  /\ nextCapsuleId = 2
  /\ messages = (1 :> [capsule_id |-> 1, creator_id |-> 1, text |-> "t1", filename |-> 1])
                @@ (2 :> [capsule_id |-> 1, creator_id |-> 1, text |-> "t1", filename |-> 0])
  /\ nextMessageId = 3
  /\ files = {1}
  /\ nextFile = 2

NextAdmin ==
  \/ Return
  \/ get_user
  \/ update_user
  \/ delete_user
  \/ get_capsule
  \/ update_capsule
  \/ delete_capsule
  \/ get_message
  \/ update_message
  \/ delete_message

SpecAdmin == InitAdmin /\ [][NextAdmin]_vars

(* ------------------------------ claims -------------------------------- *)
(* The visibility predicate as the specification words it.                 *)
Revealed(capsule, t) == capsule.reveal_date <= t

Visible(u, capsule, m, t) ==
  \/ u.is_admin
  \/ m.creator_id = u.id
  \/ (capsule.owner_id = u.id /\ Revealed(capsule, t))
  \/ (capsule.recipient_phone = u.phone /\ Revealed(capsule, t))

PassesCapsuleRead(u, capsule) ==
  u.is_admin \/ capsule.owner_id = u.id \/ capsule.recipient_phone = u.phone

MessageIdsOf(capsule_id) ==
  {m \in DOMAIN messages : messages[m].capsule_id = capsule_id}

Listed == {last.out[i].id : i \in 1..Len(last.out)}

Answered(op) == last.op = op /\ last.user.id # 0

(* C1: get_capsule, asked by a requester who passes the capsule-read check *)
(* (admin, owner, or phone equal to recipient_phone), answers 200 and its  *)
(* messages list holds exactly the capsule's messages m with               *)
(* is_admin OR m.creator_id == requester.id OR (owner AND reveal_date <=   *)
(* now) OR (recipient phone AND reveal_date <= now), each once, with its   *)
(* own fields; every other message is left out.                            *)
C1_ListingFilter ==
  (Answered("get_capsule") /\ last.capsule_id \in DOMAIN capsules
     /\ PassesCapsuleRead(last.user, capsules[last.capsule_id])) =>
    /\ last.code = 200
    /\ Listed = {m \in MessageIdsOf(last.capsule_id) :
                   Visible(last.user, capsules[last.capsule_id], messages[m], now)}
    /\ Len(last.out) = Cardinality(Listed)
    /\ \A i \in 1..Len(last.out) : last.out[i] = MessageOut(last.out[i].id)

(* A listing by a non-admin that shows one message and hides another.      *)
C1_Witness ==
  /\ Answered("get_capsule") /\ last.code = 200 /\ ~last.user.is_admin
  /\ Listed # {}
  /\ MessageIdsOf(last.capsule_id) \ Listed # {}

(* C2: get_message on an existing message m of capsule c returns m iff the *)
(* requester is admin, or m's creator, or c's owner at or after the reveal *)
(* date, or has c's recipient phone at or after the reveal date; otherwise *)
(* it answers 403.  A requester who is none of admin, owner, recipient and *)
(* creator always gets 403.                                                *)
C2_MessageRead ==
  (Answered("get_message") /\ find_message(last.capsule_id, last.message_id)) =>
    LET u == last.user
        c == capsules[last.capsule_id]
        m == messages[last.message_id]
    IN
    /\ last.code \in {200, 403}
    /\ last.code = 200 <=> Visible(u, c, m, now)
    /\ last.code = 200 => last.out = <<MessageOut(last.message_id)>>
    /\ (~u.is_admin /\ c.owner_id # u.id /\ c.recipient_phone # u.phone
          /\ m.creator_id # u.id) => last.code = 403

(* A stranger to the capsule is refused a message of an opened capsule.    *)
C2_Witness ==
  /\ Answered("get_message") /\ last.code = 403
  /\ find_message(last.capsule_id, last.message_id)
  /\ capsules[last.capsule_id].owner_id # last.user.id
  /\ capsules[last.capsule_id].recipient_phone # last.user.phone
  /\ capsules[last.capsule_id].reveal_date <= now

(* C3: capsule c with reveal date T, owner U1, recipient phone the phone   *)
(* of a non-admin user U2 (another user than U1), message M of c written   *)
(* by U1.  Asked by U2: before T get_message answers 403 and the listing   *)
(* of get_capsule leaves M out; from T on (T included) both return M.      *)
(* Asked by U1: both return M at every time.                               *)
C3_RevealTimeline ==
  \A M \in DOMAIN messages :
    LET c == capsules[messages[M].capsule_id]
        T == c.reveal_date
        U1 == c.owner_id
        U2 == last.user
    IN
    (messages[M].creator_id = U1 /\ last.capsule_id = messages[M].capsule_id
       /\ last.user.id # 0) =>
      /\ (U2.id # U1 /\ ~U2.is_admin /\ c.recipient_phone = U2.phone) =>
           /\ (last.op = "get_message" /\ last.message_id = M) =>
                IF now < T THEN last.code = 403
                ELSE last.code = 200 /\ last.out = <<MessageOut(M)>>
           /\ last.op = "get_capsule" =>
                last.code = 200 /\ (M \in Listed <=> now >= T)
      /\ U2.id = U1 =>
           /\ (last.op = "get_message" /\ last.message_id = M) =>
                last.code = 200 /\ last.out = <<MessageOut(M)>>
           /\ last.op = "get_capsule" => last.code = 200 /\ M \in Listed

(* The recipient reads the owner's message at the very reveal date, which  *)
(* is not the capsule's creation time.                                     *)
C3_Witness ==
  /\ Answered("get_message") /\ last.code = 200 /\ ~last.user.is_admin
  /\ find_message(last.capsule_id, last.message_id)
  /\ capsules[last.capsule_id].recipient_phone = last.user.phone
  /\ capsules[last.capsule_id].owner_id # last.user.id
  /\ messages[last.message_id].creator_id = capsules[last.capsule_id].owner_id
  /\ capsules[last.capsule_id].reveal_date = now
  /\ now > 0

CreatedBy(u) == {m \in DOMAIN messages : messages[m].creator_id = u.id}

(* C4 as claimed: whoever created a message m gets m from get_message and  *)
(* from get_capsule on m's capsule, at every time, owner or recipient of   *)
(* the capsule or not.                                                     *)
C4_Original ==
  \A m \in CreatedBy(last.user) :
    /\ (Answered("get_message") /\ last.message_id = m
          /\ last.capsule_id = messages[m].capsule_id) =>
         last.code = 200 /\ last.out = <<MessageOut(m)>>
    /\ (Answered("get_capsule") /\ last.capsule_id = messages[m].capsule_id) =>
         last.code = 200 /\ m \in Listed

(* C4 (amended): whoever created a message m gets m from get_message at    *)
(* every time, whatever the reveal date and the ownership; get_capsule on  *)
(* m's capsule lists m when the creator passes the capsule-read check      *)
(* (admin, owner, or recipient phone), and answers 403 when not.           *)
C4_CreatorReads ==
  \A m \in CreatedBy(last.user) :
    /\ (Answered("get_message") /\ last.message_id = m
          /\ last.capsule_id = messages[m].capsule_id) =>
         last.code = 200 /\ last.out = <<MessageOut(m)>>
    /\ (Answered("get_capsule") /\ last.capsule_id = messages[m].capsule_id) =>
         IF PassesCapsuleRead(last.user, capsules[last.capsule_id])
         THEN last.code = 200 /\ m \in Listed
         ELSE last.code = 403

(* A creator who is neither admin, owner nor recipient reads their message *)
(* before the reveal date.                                                 *)
C4_Witness ==
  /\ Answered("get_message") /\ last.code = 200 /\ ~last.user.is_admin
  /\ find_message(last.capsule_id, last.message_id)
  /\ messages[last.message_id].creator_id = last.user.id
  /\ capsules[last.capsule_id].owner_id # last.user.id
  /\ capsules[last.capsule_id].recipient_phone # last.user.phone
  /\ now < capsules[last.capsule_id].reveal_date

(* C5: on an existing message m, update_message answers 403 exactly when   *)
(* the requester is neither admin nor m's creator, and delete_message      *)
(* exactly when the requester is neither admin, m's creator nor the owner  *)
(* of m's capsule; a 403 leaves the message rows and the stored files as   *)
(* they were.  The decision reads neither the reveal date nor the clock.   *)
C5_MessageWrite ==
  [][ LET u == last'.user
          found == find_message(last'.capsule_id, last'.message_id)
          m == messages[last'.message_id]
          c == capsules[last'.capsule_id]
      IN
      /\ (last'.op = "update_message" /\ u.id # 0 /\ found
            /\ ~(last'.body.text = None /\ last'.body.file = None)) =>
           /\ last'.code = 403 <=> ~(u.is_admin \/ m.creator_id = u.id)
           /\ last'.code = 403 => (messages' = messages /\ files' = files)
      /\ (last'.op = "delete_message" /\ u.id # 0 /\ found) =>
           /\ last'.code = 403 <=>
                ~(u.is_admin \/ m.creator_id = u.id \/ c.owner_id = u.id)
           /\ last'.code = 403 => (messages' = messages /\ files' = files)
           /\ last'.code # 403 => last'.message_id \notin DOMAIN messages'
    ]_vars

(* The capsule's owner, after the reveal date, is refused the update of a  *)
(* message somebody else wrote.                                            *)
C5_Witness ==
  /\ Answered("update_message") /\ last.code = 403
  /\ find_message(last.capsule_id, last.message_id)
  /\ capsules[last.capsule_id].owner_id = last.user.id
  /\ capsules[last.capsule_id].reveal_date <= now

AdminOps == {"get_user", "update_user", "delete_user",
             "get_capsule", "update_capsule", "delete_capsule",
             "get_message", "update_message", "delete_message"}

(* C6: a requester with is_admin true never gets 403 from get_user,        *)
(* update_user, delete_user, get_capsule, update_capsule, delete_capsule,  *)
(* get_message, update_message or delete_message, whatever the target's    *)
(* owner, creator, recipient phone and reveal date; its get_capsule lists  *)
(* every message of the capsule and its get_message returns the message.   *)
C6_AdminUnconditional ==
  (last.op \in AdminOps /\ last.user.is_admin) =>
    /\ last.code # 403
    /\ (last.op = "get_user" /\ last.user_id \in DOMAIN users) => last.code = 200
    /\ (last.op = "get_capsule" /\ last.capsule_id \in DOMAIN capsules) =>
         last.code = 200 /\ Listed = MessageIdsOf(last.capsule_id)
    /\ (last.op = "get_message" /\ find_message(last.capsule_id, last.message_id)) =>
         last.code = 200
    /\ (last.op = "update_capsule" /\ last.capsule_id \in DOMAIN capsules) =>
         last.code = 200

(* An admin who neither owns the capsule, nor is its recipient, nor wrote  *)
(* any of its messages lists all of them before the reveal date.           *)
C6_Witness ==
  /\ last.op = "get_capsule" /\ last.code = 200 /\ last.user.is_admin
  /\ capsules[last.capsule_id].owner_id # last.user.id
  /\ capsules[last.capsule_id].recipient_phone # last.user.phone
  /\ now < capsules[last.capsule_id].reveal_date
  /\ CreatedBy(last.user) = {}
  /\ Cardinality(Listed) > 1

(* C7 as claimed: delete_capsule by the owner or an admin on an existing   *)
(* capsule, whatever its messages hold, removes the capsule row, every     *)
(* message row of it and every file they reference (so that get_capsule    *)
(* then answers 404).                                                      *)
C7_Original ==
  [][ (last'.op = "delete_capsule" /\ last'.user.id # 0
         /\ last'.capsule_id \in DOMAIN capsules
         /\ (last'.user.is_admin \/ capsules[last'.capsule_id].owner_id = last'.user.id)) =>
        /\ last'.code = 200
        /\ last'.capsule_id \notin DOMAIN capsules'
        /\ \A m \in MessageIdsOf(last'.capsule_id) :
             /\ m \notin DOMAIN messages'
             /\ messages[m].filename # 0 => messages[m].filename \notin files'
    ]_vars

ValidToken(token) == token.signed /\ token.exp > now

(* C8 as claimed: a request with a validly signed, unexpired token whose   *)
(* user has been deleted is answered 404 by get_current_user; an expired   *)
(* or invalid token is answered 401.                                       *)
C8_Original ==
  [][ (last'.op \in AdminOps \cup {"read_current_user"}) =>
        /\ (ValidToken(last'.token) /\ int(last'.token.sub) \notin DOMAIN users) =>
             last'.code = 404
        /\ ~ValidToken(last'.token) => last'.code = 401
    ]_vars

(* C9 as claimed: create_user with the phone of an existing user, or with  *)
(* a non-null email of an existing user, answers 400, adds no user and     *)
(* changes no user.                                                        *)
C9_Original ==
  [][ (last'.op = "create_user"
         /\ (PhoneTaken(last'.body.phone, 0) \/ EmailTaken(last'.body.email, 0))) =>
        last'.code = 400 /\ users' = users
    ]_vars

(* C10 as claimed: an authorized update_message that brings a new file for *)
(* a message whose file is stored leaves, when it succeeds, the new file   *)
(* stored and referenced and the old one gone, and when the write fails    *)
(* the old file still stored and still the one referenced.                 *)
C10_Original ==
  [][ LET m == last'.message_id
          old == messages[m].filename
      IN
      (last'.op = "update_message" /\ last'.body.file # None
         /\ last'.code \in {200, 500} /\ old \in files) =>
        IF last'.code = 200
        THEN /\ messages'[m].filename # old
             /\ messages'[m].filename \in files'
             /\ old \notin files'
        ELSE /\ messages'[m].filename = old
             /\ old \in files'
    ]_vars

(* C11 as claimed: admin rights are granted only by admins.  A user's      *)
(* is_admin flag becomes true (at registration or later) or stops being    *)
(* true only through a request whose requester is an admin; create_user    *)
(* needs no authentication, so its requester is never one.                 *)
C11_Original ==
  [][ \A u \in DOMAIN users' :
        (IF u \in DOMAIN users
         THEN users'[u].is_admin # users[u].is_admin
         ELSE users'[u].is_admin) =>
          last'.user.is_admin
    ]_vars

(* What get_current_user hands the handlers for the stored user u.         *)
Requester(u) == [id |-> u, is_admin |-> users[u].is_admin, phone |-> users[u].phone]

(* Message m of capsule c is visible to user u: get_capsule answers u with *)
(* m in its list and get_message answers u with m.                         *)
SeenBy(u, c, m) ==
  /\ can_read_capsule(Requester(u), capsules[c])
  /\ listing_includes(Requester(u), capsules[c], messages[m])
  /\ get_message_allowed(Requester(u), capsules[c], messages[m])

(* C12 as claimed: reveal is irreversible.  Once the reveal date of a      *)
(* capsule has been reached and a message of it is visible to the user     *)
(* whose phone equals recipient_phone, no operation (update_capsule by the *)
(* owner included) after which the capsule and the message still exist and *)
(* the user's phone is unchanged takes that visibility away: nothing       *)
(* re-seals revealed content or redirects it to another recipient.         *)
C12_Original ==
  [][ \A u \in DOMAIN users, c \in DOMAIN capsules, m \in DOMAIN messages :
        ( /\ messages[m].capsule_id = c
          /\ users[u].phone = capsules[c].recipient_phone
          /\ capsules[c].reveal_date <= now
          /\ SeenBy(u, c, m)
          /\ u \in DOMAIN users' /\ users'[u].phone = users[u].phone
          /\ c \in DOMAIN capsules'
          /\ m \in DOMAIN messages' /\ messages'[m].capsule_id = c ) =>
          SeenBy(u, c, m)'
    ]_vars
====
